---- MODULE Spec2Model ----
(***************************************************************************)
(* Model of the distributed vector adapter EpetraVector                    *)
(* (src/dolfin/fem/Form.h, lines 380-938) and of the mesh quality queries  *)
(* MeshQuality (src/cpp/dolfin/mesh/MeshQuality.cpp).                      *)
(*                                                                         *)
(* Real values are modelled by exact numbers: vector entries by naturals,  *)
(* radius ratios by k/ShapeDen.  error(...) and log::dolfin_error(...)     *)
(* throw: the operation stops where the error is raised.                   *)
(* The Epetra calls are modelled by what Epetra does: Epetra_FEVector      *)
(* writes owned rows in place and stages rows owned elsewhere until        *)
(* GlobalAssemble, which exports them to the owners and is a no-op on a    *)
(* one-process communicator; Dot/Update/Multiply compare the local         *)
(* lengths of the operands only.                                           *)
(***************************************************************************)
EXTENDS Integers, Sequences, FiniteSets, TLC

\* ---------------------------------------------------------------- bounds
MaxProcs == 2
MaxN == 3
MaxVal == 2
MaxM == 2
MaxGhosts == 1
MaxSteps == 3
MaxCells == 2
MaxBins == 3
ShapeDen == 4
MaxLen == 1
MaxSumN == 2
MaxMix == 2
MaxGhostSteps == 2
MaxRing == 3
MaxGhostList == 2

\* std::numeric_limits<double>::max(), in units of 1/ShapeDen
DBL_MAX == 1000000

VARIABLES
  nproc,   \* number of MPI processes
  vec,     \* the EpetraVector of each process
  last,    \* the last vector operation: its name, caller, arguments and outcome
  steps,   \* number of vector operations so far
  hung,    \* a process is blocked in a collective the others never enter
  mesh,    \* the mesh: its dimension and the cells each process iterates over
  call,    \* the mesh quality query in progress and its arguments
  mq,      \* each process's position and local variables in that query
  yvec,    \* the second operand of the arithmetic operations, on each process
  sm,      \* each process's position and local variables in sum() / sum(rows)
  net,     \* MPI messages in flight: net[src][dst] is a FIFO queue
  faulty   \* the Epetra backend may return a nonzero status in this run

vecVars == <<vec, last, steps, hung>>

mqVars == <<mesh, call, mq>>

arVars == <<yvec, sm, net, faulty>>

vars == <<nproc, vec, last, steps, hung, mesh, call, mq, yvec, sm, net, faulty>>

\* ---------------------------------------------------------------- helpers
Ranks == 0 .. (nproc - 1)

Vals == 0 .. MaxVal

SeqsUpTo(S, k) == UNION {[1 .. m -> S] : m \in 0 .. k}

Range(s) == {s[i] : i \in DOMAIN s}

Distinct(s) == \A i, j \in DOMAIN s : i # j => s[i] # s[j]

EmptyFn == [g \in {} |-> 0]

Zeros(n) == [i \in 1 .. n |-> 0]

RECURSIVE SumSeq(_)
SumSeq(s) == IF s = <<>> THEN 0 ELSE s[1] + SumSeq(Tail(s))

RECURSIVE SumFn(_, _)
SumFn(f, S) == IF S = {} THEN 0 ELSE LET a == CHOOSE b \in S : TRUE IN f[a] + SumFn(f, S \ {a})

\* ---------------------------------------------------------------- vector state
\* A default-constructed EpetraVector: x and x_ghosted are null.
NewVector(type) ==
  [x |-> FALSE, type |-> type, serial |-> FALSE, N |-> 0, n0 |-> 0,
   vals |-> <<>>, nl |-> EmptyFn, g2l |-> EmptyFn,
   xg_set |-> FALSE, xg_map |-> <<>>, xg |-> <<>>, use |-> 0]

\* size() returning x->MyLength()
sizeMyLength(v) == IF v.x THEN Len(v.vals) ELSE 0

size(v) == IF v.x THEN v.N ELSE 0

local_size(v) == IF v.x THEN Len(v.vals) ELSE 0

\* x->Comm().NumProc(): a map built on the serial communicator has one process
CommNumProc(v) == IF v.serial THEN 1 ELSE nproc

local_range(v) ==
  IF CommNumProc(v) = 1 THEN <<0, size(v)>> ELSE <<v.n0, v.n0 + Len(v.vals)>>

\* Epetra_BlockMap::MyGID on x->Map()
MyGID(v, g) == g >= v.n0 /\ g < v.n0 + Len(v.vals)

\* MPI::local_range(N): the block partition of N indices over the processes
MPI_local_range(p, N) == <<(N * p) \div nproc, (N * (p + 1)) \div nproc>>

\* Local variables of a process before it enters sum() or sum(rows)
SmStart ==
  [f |-> "none", rows |-> <<>>, pc |-> "start", i |-> 0, local_rows |-> <<>>,
   nonlocal_rows |-> <<>>, recv_buffer_size |-> 0, local_sum |-> 0, ret |-> 0,
   sent |-> <<>>, recvd |-> <<>>]

\* No second operand, no sum in progress
ArIdle ==
  /\ yvec = [p \in Ranks |-> NewVector("global")]
  /\ sm = [p \in Ranks |-> SmStart]
  /\ net = [p \in Ranks |-> [q \in Ranks |-> <<>>]]
  /\ faulty = FALSE

\* x.unique() is false: another handle points to the same Epetra object
Shared(v) == v.x /\ v.use > 1

\* ---------------------------------------------------------------- resize
\* resize without the test of x.unique()
ResizeBranchUnchecked(v, N, n, ghosts) ==
  IF N = n \/ v.type = "local"
  THEN IF Len(ghosts) # 0 THEN "error_ghosts" ELSE "serial"
  ELSE "dist"

\* The branch resize(N, n, ghost_indices) takes on one process.
ResizeBranch(v, N, n, ghosts) ==
  IF v.x /\ v.use # 1 THEN "error"
  ELSE IF N = n \/ v.type = "local"
       THEN IF Len(ghosts) # 0 THEN "error_ghosts" ELSE "serial"
       ELSE "dist"

\* std::map::insert keeps the first slot of a repeated key
GhostGlobalToLocal(ghosts) ==
  [g \in Range(ghosts) |-> (CHOOSE i \in DOMAIN ghosts : ghosts[i] = g /\ \A j \in DOMAIN ghosts : ghosts[j] = g => i <= j) - 1]

\* The vector a process holds after resize(N, n, ghost_indices) took branch b;
\* Ntot and first are the global size and first index of the distributed map.
ResizeResult(v, b, N, n, ghosts, Ntot, first) ==
  CASE b = "error" -> v
    [] b = "error_ghosts" -> [v EXCEPT !.g2l = EmptyFn]
    [] b = "blocked" -> [v EXCEPT !.g2l = EmptyFn]
    [] b = "serial" ->
         [v EXCEPT !.x = TRUE, !.serial = TRUE, !.N = N, !.n0 = 0, !.vals = Zeros(N),
                   !.nl = EmptyFn, !.g2l = EmptyFn, !.xg_set = TRUE,
                   !.xg_map = ghosts, !.xg = Zeros(Len(ghosts)), !.use = 1]
    [] b = "dist" ->
         [v EXCEPT !.x = TRUE, !.serial = FALSE, !.N = Ntot, !.n0 = first, !.vals = Zeros(n),
                   !.nl = EmptyFn, !.g2l = GhostGlobalToLocal(ghosts), !.xg_set = TRUE,
                   !.xg_map = ghosts, !.xg = Zeros(Len(ghosts)), !.use = 1]

\* All processes call resize(N, nv[p], gv[p]).  The construction of the
\* distributed map is collective: a process that enters it while another
\* process does not is blocked in it.
ResizeAll(N, nv, gv, opname) ==
  LET b == [p \in Ranks |-> ResizeBranch(vec[p], N, nv[p], gv[p])]
      allDist == \A p \in Ranks : b[p] = "dist"
      out == [p \in Ranks |-> IF b[p] = "dist" /\ ~allDist THEN "blocked" ELSE b[p]]
      Ntot == SumFn(nv, Ranks)
      first == [p \in Ranks |-> SumFn(nv, {q \in Ranks : q < p})]
  IN /\ vec' = [p \in Ranks |-> ResizeResult(vec[p], out[p], N, nv[p], gv[p], Ntot, first[p])]
     /\ hung' = (\E p \in Ranks : out[p] = "blocked")
     /\ last' = [op |-> opname, rank |-> -1, arg |-> <<N, nv, gv>>, out |-> out]

\* Ghost lists a caller passes: distinct indices of rows it does not own, or
\* any distinct indices with a local size of N
GhostLists(N, first, n) ==
  {s \in SeqsUpTo(0 .. (N - 1), MaxGhosts) :
     Distinct(s) /\ \A i \in DOMAIN s : s[i] < first \/ s[i] >= first + n \/ n = N}

\* Local sizes a caller passes: a partition of N, or N everywhere
LocalSizes(N) ==
  {nv \in [Ranks -> 0 .. N] : SumFn(nv, Ranks) = N \/ \A p \in Ranks : nv[p] = N}

Resize3 ==
  /\ ~hung /\ steps < MaxSteps
  /\ \E N \in 0 .. MaxN : \E nv \in LocalSizes(N) :
       \E gv \in [Ranks -> SeqsUpTo(0 .. (MaxN - 1), MaxGhosts)] :
         /\ \A p \in Ranks : gv[p] \in GhostLists(N, SumFn(nv, {q \in Ranks : q < p}), nv[p])
         /\ ResizeAll(N, nv, gv, "resize3")
  /\ steps' = steps + 1
  /\ UNCHANGED <<nproc, mqVars, arVars>>

\* resize(N) returning early only when the storage is not shared
ResizeNoopUnlessShared(v, N) == v.x /\ size(v) = N /\ v.use = 1

\* resize(N): nothing to do on a process whose vector already has size N
ResizeNoop(v, N) == v.x /\ size(v) = N

Resize1 ==
  /\ ~hung /\ steps < MaxSteps
  /\ \E N \in 0 .. MaxN :
       LET noop == [p \in Ranks |-> ResizeNoop(vec[p], N)]
           nv == [p \in Ranks |-> MPI_local_range(p, N)[2] - MPI_local_range(p, N)[1]]
           gv == [p \in Ranks |-> <<>>]
           b == [p \in Ranks |-> IF noop[p] THEN "noop" ELSE ResizeBranch(vec[p], N, nv[p], gv[p])]
           allDist == \A p \in Ranks : b[p] = "dist"
           out == [p \in Ranks |-> IF b[p] = "dist" /\ ~allDist THEN "blocked" ELSE b[p]]
       IN /\ vec' = [p \in Ranks |-> IF noop[p] THEN vec[p]
                                     ELSE ResizeResult(vec[p], out[p], N, nv[p], gv[p], N, MPI_local_range(p, N)[1])]
          /\ hung' = (\E p \in Ranks : out[p] = "blocked")
          /\ last' = [op |-> "resize", rank |-> -1, arg |-> <<N, nv, gv>>, out |-> out]
  /\ steps' = steps + 1
  /\ UNCHANGED <<nproc, mqVars, arVars>>

\* A second handle built on vec(): EpetraVector(boost::shared_ptr<Epetra_FEVector>)
Share(p) ==
  /\ ~hung /\ steps < MaxSteps
  /\ vec[p].x /\ vec[p].use < 2
  /\ vec' = [vec EXCEPT ![p].use = @ + 1]
  /\ last' = [op |-> "share", rank |-> p, arg |-> <<>>, out |-> <<>>]
  /\ steps' = steps + 1
  /\ UNCHANGED <<nproc, hung, mqVars, arVars>>

\* The second handle is destroyed
Release(p) ==
  /\ ~hung /\ steps < MaxSteps
  /\ vec[p].x /\ vec[p].use > 1
  /\ vec' = [vec EXCEPT ![p].use = @ - 1]
  /\ last' = [op |-> "release", rank |-> p, arg |-> <<>>, out |-> <<>>]
  /\ steps' = steps + 1
  /\ UNCHANGED <<nproc, hung, mqVars, arVars>>

\* ---------------------------------------------------------------- set / add / apply
\* Epetra_FEVector::inputNonlocalValue: a row owned elsewhere is staged; a row
\* staged before is overwritten (replace) or accumulated (sum into)
InputNonlocalValue(nl, g, val, suminto) ==
  IF g \in DOMAIN nl
  THEN [nl EXCEPT ![g] = IF suminto THEN @ + val ELSE val]
  ELSE [h \in DOMAIN nl \cup {g} |-> IF h = g THEN val ELSE nl[h]]

\* Epetra_FEVector::inputValues, entry by entry from position i on
RECURSIVE InputValues(_, _, _, _, _)
InputValues(v, rows, block, suminto, i) ==
  IF i > Len(rows) THEN v
  ELSE LET g == rows[i]
           w == IF MyGID(v, g)
                THEN [v EXCEPT !.vals[g - v.n0 + 1] = IF suminto THEN @ + block[i] ELSE block[i]]
                ELSE [v EXCEPT !.nl = InputNonlocalValue(v.nl, g, block[i], suminto)]
       IN InputValues(w, rows, block, suminto, i + 1)

\* x->ReplaceGlobalValues(m, rows, block, 0)
ReplaceGlobalValues(v, rows, block) == InputValues(v, rows, block, FALSE, 1)

\* x->SumIntoGlobalValues(m, rows, block, 0)
SumIntoGlobalValues(v, rows, block) == InputValues(v, rows, block, TRUE, 1)

\* Rows and blocks a caller passes to set, add and get
RowLists(v) == {r \in SeqsUpTo(0 .. (size(v) - 1), MaxM) : Distinct(r)}

Blocks(m) == {b \in [1 .. m -> 1 .. MaxVal] : Distinct(b)}

set(p) ==
  /\ ~hung /\ steps < MaxSteps
  /\ vec[p].x
  /\ \E rows \in RowLists(vec[p]) : \E block \in Blocks(Len(rows)) :
       /\ vec' = [vec EXCEPT ![p] = ReplaceGlobalValues(vec[p], rows, block)]
       /\ last' = [op |-> "set", rank |-> p, arg |-> <<rows, block>>, out |-> "ok"]
  /\ steps' = steps + 1
  /\ UNCHANGED <<nproc, hung, mqVars, arVars>>

add(p) ==
  /\ ~hung /\ steps < MaxSteps
  /\ vec[p].x
  /\ \E rows \in RowLists(vec[p]) : \E block \in Blocks(Len(rows)) :
       /\ vec' = [vec EXCEPT ![p] = SumIntoGlobalValues(vec[p], rows, block)]
       /\ last' = [op |-> "add", rank |-> p, arg |-> <<rows, block>>, out |-> "ok"]
  /\ steps' = steps + 1
  /\ UNCHANGED <<nproc, hung, mqVars, arVars>>

\* The processes that staged a value for row g
Senders(g) == {r \in Ranks : vec[r].x /\ g \in DOMAIN vec[r].nl}

\* GlobalAssemble dropping the staged rows instead of exporting them
GlobalAssembleNoExport(p, mode, pick) == [vec[p] EXCEPT !.nl = EmptyFn]

\* Epetra_FEVector::GlobalAssemble(mode) on process p: nothing on a one-process
\* communicator; otherwise the staged values are exported to the owners and
\* combined (Add: summed into the entry; Insert: the entry is replaced by the
\* value of one sender, pick[g]), and the staging area is emptied.
GlobalAssemble(p, mode, pick) ==
  LET v == vec[p]
  IN IF CommNumProc(v) < 2 THEN v
     ELSE [v EXCEPT
             !.vals = [i \in 1 .. Len(v.vals) |->
                         LET g == v.n0 + i - 1
                         IN IF Senders(g) = {} THEN v.vals[i]
                            ELSE IF mode = "add"
                                 THEN v.vals[i] + SumFn([r \in Senders(g) |-> vec[r].nl[g]], Senders(g))
                                 ELSE vec[pick[g]].nl[g]],
             !.nl = EmptyFn]

\* apply taking every mode other than "add" for "insert"
ApplyResultDefaultInsert(p, mode, pick) ==
  IF mode = "add" THEN GlobalAssemble(p, "add", pick) ELSE GlobalAssemble(p, "insert", pick)

\* apply(mode) on process p
ApplyResult(p, mode, pick) ==
  IF mode = "add" THEN GlobalAssemble(p, "add", pick)
  ELSE IF mode = "insert" THEN GlobalAssemble(p, "insert", pick)
  ELSE vec[p]

ApplyError(mode) == mode # "add" /\ mode # "insert"

\* The call before this one, when it staged a write: who wrote what
Writer(l) ==
  IF l.op \in {"set", "add"} THEN [op |-> l.op, rank |-> l.rank, arg |-> l.arg]
  ELSE [op |-> l.op, rank |-> -1, arg |-> <<>>]

\* All processes call apply(mode)
apply ==
  /\ ~hung /\ steps < MaxSteps
  /\ \A p \in Ranks : vec[p].x
  /\ \E mode \in {"add", "insert", "flush"} :
       \E pick \in [0 .. (MaxN - 1) -> Ranks] :
         /\ \A g \in 0 .. (MaxN - 1) : pick[g] \in Senders(g) \/ (Senders(g) = {} /\ pick[g] = 0)
         /\ vec' = [p \in Ranks |-> ApplyResult(p, mode, pick)]
         /\ last' = [op |-> "apply", rank |-> -1,
                     arg |-> <<mode, Writer(last), [r \in Ranks |-> vec[r].nl]>>,
                     out |-> IF ApplyError(mode) THEN "error" ELSE "ok"]
  /\ steps' = steps + 1
  /\ UNCHANGED <<nproc, hung, mqVars, arVars>>

\* ---------------------------------------------------------------- local access
\* Arrays a caller passes to get_local, set_local and add_local
Arrays == SeqsUpTo(1 .. MaxVal, MaxN)

\* The length check of get_local, set_local and add_local
LengthError(v, values) == Len(values) # Len(v.vals)

\* get_local(values): x->ExtractCopy
GetLocalArray(v, values) == IF LengthError(v, values) THEN values ELSE v.vals

\* set_local copying before it compares the lengths
SetLocalValuesTruncating(v, values) ==
  [v EXCEPT !.vals = [i \in 1 .. Len(v.vals) |-> IF i <= Len(values) THEN values[i] ELSE v.vals[i]]]

\* set_local(values)
SetLocalValues(v, values) ==
  IF LengthError(v, values) THEN v
  ELSE [v EXCEPT !.vals = [i \in 1 .. Len(v.vals) |-> values[i]]]

\* add_local(values)
AddLocalValues(v, values) ==
  IF LengthError(v, values) THEN v
  ELSE [v EXCEPT !.vals = [i \in 1 .. Len(v.vals) |-> v.vals[i] + values[i]]]

get_local(p) ==
  /\ ~hung /\ steps < MaxSteps
  /\ vec[p].x
  /\ \E values \in Arrays :
       last' = [op |-> "get_local", rank |-> p, arg |-> <<values>>,
                out |-> <<LengthError(vec[p], values), GetLocalArray(vec[p], values)>>]
  /\ steps' = MaxSteps
  /\ UNCHANGED <<nproc, vec, hung, mqVars, arVars>>

set_local(p) ==
  /\ ~hung /\ steps < MaxSteps
  /\ vec[p].x
  /\ \E values \in Arrays :
       /\ vec' = [vec EXCEPT ![p] = SetLocalValues(vec[p], values)]
       /\ last' = [op |-> "set_local", rank |-> p, arg |-> <<values>>,
                   out |-> <<LengthError(vec[p], values), values>>]
  /\ steps' = steps + 1
  /\ UNCHANGED <<nproc, hung, mqVars, arVars>>

add_local(p) ==
  /\ ~hung /\ steps < MaxSteps
  /\ vec[p].x
  /\ \E values \in Arrays :
       /\ vec' = [vec EXCEPT ![p] = AddLocalValues(vec[p], values)]
       /\ last' = [op |-> "add_local", rank |-> p, arg |-> <<values>>,
                   out |-> <<LengthError(vec[p], values), values>>]
  /\ steps' = steps + 1
  /\ UNCHANGED <<nproc, hung, mqVars, arVars>>

\* ---------------------------------------------------------------- get / gather
\* The blocks get_local(block, m, rows) may produce on a vector v: an index
\* outside the storage reads memory the vector does not own (any value).
GetLocalRows(v, rows) ==
  {b \in [1 .. Len(rows) -> Vals] :
     \A i \in 1 .. Len(rows) :
       IF Cardinality(DOMAIN v.g2l) = 0
       THEN (rows[i] >= v.n0 /\ rows[i] - v.n0 < Len(v.vals)) => b[i] = v.vals[rows[i] - v.n0 + 1]
       ELSE IF rows[i] >= v.n0 /\ rows[i] <= v.n0 + Len(v.vals) - 1
            THEN b[i] = v.vals[rows[i] - v.n0 + 1]
            ELSE (\E k \in DOMAIN v.xg_map : v.xg_map[k] = rows[i])
                   => b[i] = v.xg[CHOOSE k \in DOMAIN v.xg_map : v.xg_map[k] = rows[i]]}

\* gather(y, indices): y is reset to a local vector with one slot per index
\* and the Import copies into slot i the entry its owner holds (a slot whose
\* index no process owns keeps the initial zero).
Gather(rows) ==
  [i \in 1 .. Len(rows) |->
     IF \E q \in Ranks : vec[q].x /\ MyGID(vec[q], rows[i])
     THEN LET q == CHOOSE r \in Ranks : vec[r].x /\ MyGID(vec[r], rows[i])
          IN vec[q].vals[rows[i] - vec[q].n0 + 1]
     ELSE 0]

\* get reading the local storage whatever the partition
GetBlocksLocalOnly(p, rows) == GetLocalRows(vec[p], rows)

\* The blocks get(block, m, rows) may produce on process p
GetBlocks(p, rows) ==
  IF local_range(vec[p])[1] = 0 /\ local_range(vec[p])[2] = size(vec[p])
  THEN GetLocalRows(vec[p], rows)
  ELSE {Gather(rows)}

\* Process p calls get(block, m, rows); on a distributed vector the other
\* processes take part in the import.  A read ends the bounded run.
get(p) ==
  /\ ~hung /\ steps < MaxSteps
  /\ \A q \in Ranks : vec[q].x
  /\ \E rows \in RowLists(vec[p]) : \E block \in GetBlocks(p, rows) :
       last' = [op |-> "get", rank |-> p, arg |-> <<rows>>, out |-> block]
  /\ steps' = MaxSteps
  /\ UNCHANGED <<nproc, vec, hung, mqVars, arVars>>

\* ---------------------------------------------------------------- mesh quality
\* A cell is given by its shape c in 0 .. ShapeDen: its radius ratio is
\* c / ShapeDen, a value of [0, 1].
Shapes == 0 .. ShapeDen

radius_ratio(c) == c

Min2(a, b) == IF a <= b THEN a ELSE b

Max2(a, b) == IF a >= b THEN a ELSE b

\* The cells of process p, in iteration order: MeshRange<Cell>(mesh)
MeshRange(p) == mesh.cells[p]

\* Local variables of a process before it enters a query
MqStart ==
  [pc |-> "start", ctx |-> "top", qmin |-> 0, qmax |-> 0, values |-> <<>>, slots |-> <<>>,
   i |-> 0, ret |-> <<>>, coll |-> <<>>]

\* No query runs (the vector specifications)
MqIdle ==
  /\ mesh = [dim |-> 3, cells |-> [p \in Ranks |-> <<>>]]
  /\ call = [f |-> "none", num_bins |-> 0, debug |-> FALSE]
  /\ mq = [p \in Ranks |-> MqStart]

\* radius_ratio_min_max, the loop over the local cells from cell k on
RECURSIVE LocalMinMax(_, _, _, _)
LocalMinMax(cells, k, qmin, qmax) ==
  IF k > Len(cells) THEN <<qmin, qmax>>
  ELSE LocalMinMax(cells, k + 1, Min2(qmin, radius_ratio(cells[k])), Max2(qmax, radius_ratio(cells[k])))

\* A process enters radius_ratio_min_max (called by the program, or by the
\* assertion of radius_ratio_histogram_data in a build with assertions) and
\* runs its loop up to MPI::min.
MinMaxLocal(p) ==
  /\ mq[p].pc = "start"
  /\ \/ call.f = "radius_ratio_min_max"
     \/ call.f = "radius_ratio_histogram_data" /\ call.debug
  /\ LET r == LocalMinMax(MeshRange(p), 1, DBL_MAX, 0)
     IN mq' = [mq EXCEPT ![p].pc = "min", ![p].qmin = r[1], ![p].qmax = r[2],
                         ![p].ctx = IF call.f = "radius_ratio_min_max" THEN "top" ELSE "assert",
                         ![p].coll = Append(@, "min")]
  /\ UNCHANGED <<nproc, vecVars, arVars, mesh, call>>

RECURSIVE MinOver(_, _)
MinOver(f, S) ==
  LET a == CHOOSE b \in S : TRUE
  IN IF S = {a} THEN f[a] ELSE Min2(f[a], MinOver(f, S \ {a}))

RECURSIVE MaxOver(_, _)
MaxOver(f, S) ==
  LET a == CHOOSE b \in S : TRUE
  IN IF S = {a} THEN f[a] ELSE Max2(f[a], MaxOver(f, S \ {a}))

\* radius_ratio_min_max keeping the local minimum
MPI_min_NotReduced ==
  /\ \A p \in Ranks : mq[p].pc = "min"
  /\ mq' = [p \in Ranks |-> [mq[p] EXCEPT !.pc = "max", !.coll = Append(@, "max")]]
  /\ UNCHANGED <<nproc, vecVars, arVars, mesh, call>>

\* MPI::min(mesh.mpi_comm(), qmin): completes when every process has entered it
MPI_min ==
  /\ \A p \in Ranks : mq[p].pc = "min"
  /\ mq' = [p \in Ranks |-> [mq[p] EXCEPT !.pc = "max", !.qmin = MinOver([q \in Ranks |-> mq[q].qmin], Ranks),
                                          !.coll = Append(@, "max")]]
  /\ UNCHANGED <<nproc, vecVars, arVars, mesh, call>>

\* MPI::max(mesh.mpi_comm(), qmax), and the return of radius_ratio_min_max;
\* the assertion of radius_ratio_histogram_data compares the maximum with 1.0
MPI_max ==
  /\ \A p \in Ranks : mq[p].pc = "max"
  /\ LET m == MaxOver([q \in Ranks |-> mq[q].qmax], Ranks)
     IN mq' = [p \in Ranks |->
                 IF mq[p].ctx = "top"
                 THEN [mq[p] EXCEPT !.pc = "done", !.qmax = m, !.ret = <<mq[p].qmin, m>>]
                 ELSE [mq[p] EXCEPT !.pc = IF m <= ShapeDen THEN "hist" ELSE "aborted", !.qmax = m]]
  /\ UNCHANGED <<nproc, vecVars, arVars, mesh, call>>

\* The slot of a ratio: static_cast<std::size_t>(ratio / interval) with
\* interval = 1.0 / num_bins, at most num_bins - 1
SlotUnclamped(ratio, num_bins) == (ratio * num_bins) \div ShapeDen

Slot(ratio, num_bins) == Min2((ratio * num_bins) \div ShapeDen, num_bins - 1)

\* The loop of radius_ratio_histogram_data over the local cells from cell k
\* on: the slots computed so far and the counts
RECURSIVE LocalHistogram(_, _, _, _, _)
LocalHistogram(cells, k, num_bins, slots, values) ==
  IF k > Len(cells) THEN <<slots, values>>
  ELSE LET slot == Slot(radius_ratio(cells[k]), num_bins)
       IN LocalHistogram(cells, k + 1, num_bins, Append(slots, slot),
                         [values EXCEPT ![slot + 1] = @ + 1])

\* bins[i] = i * interval + interval / 2, as the fraction <<numerator, denominator>>
Bins(num_bins) == [j \in 1 .. num_bins |-> <<2 * (j - 1) + 1, 2 * num_bins>>]

\* A process runs the loops of radius_ratio_histogram_data up to the first MPI::sum
HistogramLocal(p) ==
  /\ call.f = "radius_ratio_histogram_data"
  /\ \/ mq[p].pc = "start" /\ ~call.debug
     \/ mq[p].pc = "hist"
  /\ LET r == LocalHistogram(MeshRange(p), 1, call.num_bins, <<>>, Zeros(call.num_bins))
     IN mq' = [mq EXCEPT ![p].pc = "sum", ![p].slots = r[1], ![p].values = r[2], ![p].i = 1,
                         ![p].coll = Append(@, "sum")]
  /\ UNCHANGED <<nproc, vecVars, arVars, mesh, call>>

\* A reduction that hands every process the count of process 0
AllReduceRoot(f) == f[0]

\* MPI::sum over the processes of the communicator
AllReduceSum(f) == SumFn(f, Ranks)

\* values[i] = MPI::sum(mesh.mpi_comm(), values[i]) for the next i; after the
\* last one the function returns {bins, values}
MPI_sum ==
  /\ \A p \in Ranks : mq[p].pc = "sum" /\ mq[p].i = mq[0].i
  /\ LET i == mq[0].i
         t == AllReduceSum([q \in Ranks |-> mq[q].values[i]])
     IN mq' = [p \in Ranks |->
                 LET v == [mq[p].values EXCEPT ![i] = t]
                 IN IF i = call.num_bins
                    THEN [mq[p] EXCEPT !.pc = "done", !.values = v, !.i = i + 1,
                                       !.ret = <<Bins(call.num_bins), v>>]
                    ELSE [mq[p] EXCEPT !.values = v, !.i = i + 1, !.coll = Append(@, "sum")]]
  /\ UNCHANGED <<nproc, vecVars, arVars, mesh, call>>

\* dihedral_angles(cell, dh_angle) on a cell of the mesh: an error for a cell
\* that is not 3D, else the array is resized to 6 and filled.  The angle at
\* edge i is acos(cphi) of the cell's geometry, here the value Angle(c, i).
Angle(c, i) == (c + i) % (ShapeDen + 1)

DihedralAnglesError(dim) == dim # 3

\* dihedral_angles resizing the array before it looks at the dimension
DihedralAnglesArrayResizedFirst(dim, c, dh_angle) ==
  IF DihedralAnglesError(dim) THEN [i \in 1 .. 6 |-> IF i <= Len(dh_angle) THEN dh_angle[i] ELSE 0]
  ELSE [i \in 1 .. 6 |-> Angle(c, i - 1)]

DihedralAnglesArray(dim, c, dh_angle) ==
  IF DihedralAnglesError(dim) THEN dh_angle
  ELSE [i \in 1 .. 6 |-> Angle(c, i - 1)]

dihedral_angles(p) ==
  /\ call.f = "dihedral_angles"
  /\ mq[p].pc = "start"
  /\ \E k \in DOMAIN MeshRange(p) : \E dh_angle \in SeqsUpTo(Shapes, MaxLen) :
       mq' = [mq EXCEPT ![p].pc = IF DihedralAnglesError(mesh.dim) THEN "error" ELSE "done",
                        ![p].values = dh_angle,
                        ![p].i = k,
                        ![p].ret = DihedralAnglesArray(mesh.dim, MeshRange(p)[k], dh_angle)]
  /\ UNCHANGED <<nproc, vecVars, arVars, mesh, call>>

\* dihedral_angles_min_max, the loop over the local cells from cell k on;
\* angles are in units of pi / ShapeDen
RECURSIVE LocalDihedralMinMax(_, _, _, _)
LocalDihedralMinMax(cells, k, d_ang_min, d_ang_max) ==
  IF k > Len(cells) THEN <<d_ang_min, d_ang_max>>
  ELSE LET angs == DihedralAnglesArray(3, cells[k], Zeros(6))
       IN LocalDihedralMinMax(cells, k + 1, Min2(d_ang_min, MinOver(angs, 1 .. 6)),
                              Max2(d_ang_max, MaxOver(angs, 1 .. 6)))

\* A process enters dihedral_angles_min_max (called by the program, or by
\* the first or the second assertion of dihedral_angles_histogram_data in a
\* build with assertions).  dihedral_angles raises the error at the first
\* cell of a mesh that is not 3D; else the loop runs up to MPI::min, from
\* d_ang_min = DOLFIN_PI + 1.0 (above every angle) and d_ang_max = -1.0.
DihedralMinMaxLocal(p) ==
  /\ \/ mq[p].pc = "start" /\ call.f = "dihedral_angles_min_max"
     \/ mq[p].pc = "start" /\ call.f = "dihedral_angles_histogram_data" /\ call.debug
     \/ mq[p].pc = "start2"
  /\ LET r == LocalDihedralMinMax(MeshRange(p), 1, ShapeDen + 1, -1)
         ctx == IF call.f = "dihedral_angles_min_max" THEN "top"
                ELSE IF mq[p].pc = "start" THEN "assert1" ELSE "assert2"
     IN IF DihedralAnglesError(mesh.dim) /\ Len(MeshRange(p)) > 0
        THEN mq' = [mq EXCEPT ![p].pc = "error", ![p].ctx = ctx]
        ELSE mq' = [mq EXCEPT ![p].pc = "dmin", ![p].qmin = r[1], ![p].qmax = r[2], ![p].ctx = ctx,
                              ![p].coll = Append(@, "min")]
  /\ UNCHANGED <<nproc, vecVars, arVars, mesh, call>>

\* d_ang_min = MPI::min(mesh.mpi_comm(), d_ang_min)
Dihedral_MPI_min ==
  /\ \A p \in Ranks : mq[p].pc = "dmin"
  /\ mq' = [p \in Ranks |-> [mq[p] EXCEPT !.pc = "dmax", !.qmin = MinOver([q \in Ranks |-> mq[q].qmin], Ranks),
                                          !.coll = Append(@, "max")]]
  /\ UNCHANGED <<nproc, vecVars, arVars, mesh, call>>

\* d_ang_max = MPI::max(mesh.mpi_comm(), d_ang_max), and the return of
\* dihedral_angles_min_max; the first assertion of
\* dihedral_angles_histogram_data compares the minimum with 0.0, the second
\* the maximum with M_PI
Dihedral_MPI_max ==
  /\ \A p \in Ranks : mq[p].pc = "dmax"
  /\ LET m == MaxOver([q \in Ranks |-> mq[q].qmax], Ranks)
     IN mq' = [p \in Ranks |->
                 CASE mq[p].ctx = "top" ->
                        [mq[p] EXCEPT !.pc = "done", !.qmax = m, !.ret = <<mq[p].qmin, m>>]
                   [] mq[p].ctx = "assert1" ->
                        [mq[p] EXCEPT !.pc = IF mq[p].qmin >= 0 THEN "start2" ELSE "aborted", !.qmax = m]
                   [] OTHER ->
                        [mq[p] EXCEPT !.pc = IF m <= ShapeDen THEN "dhist" ELSE "aborted", !.qmax = m]]
  /\ UNCHANGED <<nproc, vecVars, arVars, mesh, call>>

\* The loop over the angles of one cell leaving out an angle of M_PI
RECURSIVE AngleSlotsBelowPi(_, _, _, _, _)
AngleSlotsBelowPi(angs, i, num_bins, slots, values) ==
  IF i > Len(angs) THEN <<slots, values>>
  ELSE IF angs[i] = ShapeDen THEN AngleSlotsBelowPi(angs, i + 1, num_bins, slots, values)
  ELSE LET slot == Slot(angs[i], num_bins)
       IN AngleSlotsBelowPi(angs, i + 1, num_bins, Append(slots, slot), [values EXCEPT ![slot + 1] = @ + 1])

\* The loop of dihedral_angles_histogram_data over the angles of one cell
RECURSIVE AngleSlots(_, _, _, _, _)
AngleSlots(angs, i, num_bins, slots, values) ==
  IF i > Len(angs) THEN <<slots, values>>
  ELSE LET slot == Slot(angs[i], num_bins)
       IN AngleSlots(angs, i + 1, num_bins, Append(slots, slot), [values EXCEPT ![slot + 1] = @ + 1])

\* The loop of dihedral_angles_histogram_data over the local cells from cell
\* k on
RECURSIVE LocalDihedralHistogram(_, _, _, _, _)
LocalDihedralHistogram(cells, k, num_bins, slots, values) ==
  IF k > Len(cells) THEN <<slots, values>>
  ELSE LET r == AngleSlots(DihedralAnglesArray(3, cells[k], Zeros(6)), 1, num_bins, slots, values)
       IN LocalDihedralHistogram(cells, k + 1, num_bins, r[1], r[2])

\* A process runs the loops of dihedral_angles_histogram_data up to the
\* first MPI::sum, or raises the error of dihedral_angles at its first cell
DihedralHistogramLocal(p) ==
  /\ call.f = "dihedral_angles_histogram_data"
  /\ \/ mq[p].pc = "start" /\ ~call.debug
     \/ mq[p].pc = "dhist"
  /\ LET r == LocalDihedralHistogram(MeshRange(p), 1, call.num_bins, <<>>, Zeros(call.num_bins))
     IN IF DihedralAnglesError(mesh.dim) /\ Len(MeshRange(p)) > 0
        THEN mq' = [mq EXCEPT ![p].pc = "error"]
        ELSE mq' = [mq EXCEPT ![p].pc = "sum", ![p].slots = r[1], ![p].values = r[2], ![p].i = 1,
                              ![p].coll = Append(@, "sum")]
  /\ UNCHANGED <<nproc, vecVars, arVars, mesh, call>>

\* The cells of the whole mesh in the order of the processes
RECURSIVE AllCells(_)
AllCells(k) == IF k < 0 THEN <<>> ELSE AllCells(k - 1) \o mesh.cells[k]

\* A mesh of at most MaxCells cells split over the processes
Meshes(P) ==
  {m \in [dim : {2, 3}, cells : [0 .. (P - 1) -> SeqsUpTo(Shapes, MaxCells)]] :
     SumFn([q \in 0 .. (P - 1) |-> Len(m.cells[q])], 0 .. (P - 1)) <= MaxCells}

InitMQ ==
  /\ nproc \in 1 .. MaxProcs
  /\ mesh \in Meshes(nproc)
  /\ call \in [f : {"radius_ratio_min_max", "radius_ratio_histogram_data", "dihedral_angles",
                    "dihedral_angles_min_max", "dihedral_angles_histogram_data"},
               num_bins : 1 .. MaxBins, debug : BOOLEAN]
  /\ call.f \notin {"radius_ratio_histogram_data", "dihedral_angles_histogram_data"}
       => (call.num_bins = 1 /\ ~call.debug)
  /\ mq = [p \in Ranks |-> MqStart]
  /\ vec = [p \in Ranks |-> NewVector("global")]
  /\ last = [op |-> "new", rank |-> -1, arg |-> <<>>, out |-> <<>>]
  /\ steps = 0
  /\ hung = FALSE
  /\ ArIdle

NextMQ ==
  \/ \E p \in Ranks : MinMaxLocal(p)
  \/ MPI_min
  \/ MPI_max
  \/ \E p \in Ranks : HistogramLocal(p)
  \/ MPI_sum
  \/ \E p \in Ranks : dihedral_angles(p)
  \/ \E p \in Ranks : DihedralMinMaxLocal(p)
  \/ Dihedral_MPI_min
  \/ Dihedral_MPI_max
  \/ \E p \in Ranks : DihedralHistogramLocal(p)

SpecMQ == InitMQ /\ [][NextMQ]_vars

\* ---------------------------------------------------------------- specification
Init ==
  /\ nproc \in 1 .. MaxProcs
  /\ \E t \in {"global", "local"} : vec = [p \in Ranks |-> NewVector(t)]
  /\ last = [op |-> "new", rank |-> -1, arg |-> <<>>, out |-> <<>>]
  /\ steps = 0
  /\ hung = FALSE
  /\ MqIdle
  /\ ArIdle

Next ==
  \/ Resize3
  \/ Resize1
  \/ \E p \in Ranks : Share(p)
  \/ \E p \in Ranks : Release(p)
  \/ \E p \in Ranks : get_local(p)
  \/ \E p \in Ranks : set_local(p)
  \/ \E p \in Ranks : add_local(p)

Spec == Init /\ [][Next]_vars

\* ---------------------------------------------------------------- staged writes
\* The vectors after construction and one collective resize(N, n, ghost_indices)
\* in which no process raised an error or was blocked.
Constructed ==
  {w \in UNION {[0 .. (k - 1) -> UNION {{ResizeResult(NewVector(t), b, N, n, g, N, f) :
                                          b \in {"serial", "dist"}, n \in 0 .. N, f \in 0 .. N,
                                          g \in SeqsUpTo(0 .. (N - 1), MaxGhosts)} :
                                         N \in 0 .. MaxN, t \in {"global", "local"}}] : k \in 1 .. MaxProcs} :
     LET R == DOMAIN w
         k == Cardinality(R)
         N == w[0].N
         nv == [p \in R |-> IF w[0].serial THEN N ELSE Len(w[p].vals)]
     IN /\ \A p \in R : w[p].N = N /\ w[p].type = w[0].type /\ w[p].serial = w[0].serial
        /\ \A p \in R : ResizeBranch(NewVector(w[p].type), N, nv[p], w[p].xg_map) = (IF w[p].serial THEN "serial" ELSE "dist")
        /\ \A p \in R : ~w[p].serial => w[p].n0 = SumFn(nv, {q \in R : q < p})
        /\ ~w[0].serial => SumFn(nv, R) = N
        /\ \A p \in R : Distinct(w[p].xg_map) /\ \A i \in DOMAIN w[p].xg_map : ~MyGID(w[p], w[p].xg_map[i])}

InitIO ==
  /\ vec \in Constructed
  /\ nproc = Cardinality(DOMAIN vec)
  /\ last = [op |-> "new", rank |-> -1, arg |-> <<>>, out |-> <<>>]
  /\ steps = 0
  /\ hung = FALSE
  /\ MqIdle
  /\ ArIdle

NextIO ==
  \/ \E p \in Ranks : set(p)
  \/ apply
  \/ \E p \in Ranks : get(p)

SpecIO == InitIO /\ [][NextIO]_vars

\* ---------------------------------------------------------------- write modes
\* set, add and apply in any order: flush cycles of at most MaxMix calls
NextMix ==
  \/ \E p \in Ranks : steps < MaxMix /\ set(p)
  \/ \E p \in Ranks : steps < MaxMix /\ add(p)
  \/ steps < MaxMix /\ apply

SpecMix == InitIO /\ [][NextMix]_vars

\* ---------------------------------------------------------------- sum
\* The processes of the communicator of process r's vector
CommOf(r) == IF vec[r].serial THEN {r} ELSE Ranks

\* Layouts without ghost entries whose owned entries hold values
Fill(w) ==
  {[p \in DOMAIN w |-> [w[p] EXCEPT !.vals = f[p]]] :
     f \in {g \in [DOMAIN w -> SeqsUpTo(1 .. MaxVal, MaxN)] : \A p \in DOMAIN w : Len(g[p]) = Len(w[p].vals)}}

Filled == UNION {Fill(w) : w \in {c \in Constructed : \A p \in DOMAIN c : c[p].xg_map = <<>>}}

\* An insert that keeps every occurrence of an entry
SetInsertRepeating(s, e) == Append(s, e)

\* dolfin::Set::insert: an entry is kept once
SetInsert(s, e) == IF e \in Range(s) THEN s ELSE Append(s, e)

\* The loop that sorts rows into local_rows and nonlocal_rows, from row k on
RECURSIVE BuildRowSets(_, _, _, _, _)
BuildRowSets(v, rows, k, local_rows, nonlocal_rows) ==
  IF k > Len(rows) THEN <<local_rows, nonlocal_rows>>
  ELSE IF rows[k] >= local_range(v)[1] /\ rows[k] < local_range(v)[2]
       THEN BuildRowSets(v, rows, k + 1, SetInsert(local_rows, rows[k]), nonlocal_rows)
       ELSE BuildRowSets(v, rows, k + 1, local_rows, SetInsert(nonlocal_rows, rows[k]))

\* sum(rows) dropping the rows it receives
InsertReceivedNone(v, local_rows, received, j) == local_rows

\* The loop that adds the received rows which reside on this process, from j on
RECURSIVE InsertReceived(_, _, _, _)
InsertReceived(v, local_rows, received, j) ==
  IF j > Len(received) THEN local_rows
  ELSE IF received[j] >= local_range(v)[1] /\ received[j] < local_range(v)[2]
       THEN InsertReceived(v, SetInsert(local_rows, received[j]), received, j + 1)
       ELSE InsertReceived(v, local_rows, received, j + 1)

\* local_sum += (*x)[0][local_rows[i] - n0]
LocalRowSum(v, local_rows) ==
  SumSeq([i \in DOMAIN local_rows |-> v.vals[local_rows[i] - local_range(v)[1] + 1]])

\* The ring of sum(rows) receiving from the process it sends to
RingSourceRight(p, i) == (p + i) % nproc

\* source and dest of round i of the ring
RingSource(p, i) == (p - i + nproc) % nproc

RingDest(p, i) == (p + i) % nproc

\* The send half of MPI::send_recv
Post(p, dest, msg) == [net EXCEPT ![p][dest] = Append(@, msg)]

\* The receive half of MPI::send_recv took the first message from source
Taken(n, source, p) == [n EXCEPT ![source][p] = Tail(@)]

\* sum(): the local sum, up to the reduction
sum(p) ==
  /\ sm[p].f = "sum" /\ sm[p].pc = "start"
  /\ LET x_local == GetLocalArray(vec[p], Zeros(local_size(vec[p])))
     IN sm' = [sm EXCEPT ![p].pc = "sumall", ![p].local_sum = SumSeq(x_local)]
  /\ UNCHANGED <<nproc, vecVars, mqVars, yvec, net, faulty>>

\* sum(rows) up to the first receive: the row sets are built and, on more
\* than one process, the size of nonlocal_rows is sent to the right
sum_rows(p) ==
  /\ sm[p].f = "sum_rows" /\ sm[p].pc = "start"
  /\ LET r == BuildRowSets(vec[p], sm[p].rows, 1, <<>>, <<>>)
     IN IF 1 < nproc
        THEN /\ sm' = [sm EXCEPT ![p].pc = "recv_size", ![p].i = 1,
                                 ![p].local_rows = r[1], ![p].nonlocal_rows = r[2],
                                 ![p].sent = Append(@, RingDest(p, 1))]
             /\ net' = Post(p, RingDest(p, 1), Len(r[2]))
        ELSE /\ sm' = [sm EXCEPT ![p].pc = "sumall", ![p].i = 1,
                                 ![p].local_rows = r[1], ![p].nonlocal_rows = r[2],
                                 ![p].local_sum = LocalRowSum(vec[p], r[1])]
             /\ net' = net
  /\ UNCHANGED <<nproc, vecVars, mqVars, yvec, faulty>>

\* The first send_recv of a round returns with recv_buffer_size; the second
\* one sends nonlocal_rows to the right
send_recv_size(p) ==
  /\ sm[p].pc = "recv_size"
  /\ LET source == RingSource(p, sm[p].i)
         dest == RingDest(p, sm[p].i)
     IN /\ net[source][p] # <<>>
        /\ sm' = [sm EXCEPT ![p].pc = "recv_rows", ![p].recv_buffer_size = Head(net[source][p])]
        /\ net' = Taken(Post(p, dest, sm[p].nonlocal_rows), source, p)
  /\ UNCHANGED <<nproc, vecVars, mqVars, yvec, faulty>>

\* The second send_recv of a round returns with received_nonlocal_rows; the
\* rows that reside on this process are added and the next round starts,
\* or the local sum is computed after the last round
send_recv_rows(p) ==
  /\ sm[p].pc = "recv_rows"
  /\ LET source == RingSource(p, sm[p].i)
         i == sm[p].i + 1
     IN /\ net[source][p] # <<>>
        /\ LET received_nonlocal_rows == SubSeq(Head(net[source][p]), 1, sm[p].recv_buffer_size)
               local_rows == InsertReceived(vec[p], sm[p].local_rows, received_nonlocal_rows, 1)
           IN IF i < nproc
              THEN /\ sm' = [sm EXCEPT ![p].pc = "recv_size", ![p].i = i, ![p].local_rows = local_rows,
                                       ![p].recvd = Append(@, source),
                                       ![p].sent = Append(@, RingDest(p, i))]
                   /\ net' = Taken(Post(p, RingDest(p, i), Len(sm[p].nonlocal_rows)), source, p)
              ELSE /\ sm' = [sm EXCEPT ![p].pc = "sumall", ![p].i = i, ![p].local_rows = local_rows,
                                       ![p].recvd = Append(@, source),
                                       ![p].local_sum = LocalRowSum(vec[p], local_rows)]
                   /\ net' = Taken(net, source, p)
  /\ UNCHANGED <<nproc, vecVars, mqVars, yvec, faulty>>

\* x->Comm().SumAll(&local_sum, &global_sum, 1): completes when every process
\* of the vector's communicator has entered it
SumAll ==
  /\ \E r \in Ranks :
       LET G == CommOf(r)
       IN /\ \A q \in G : sm[q].pc = "sumall"
          /\ sm' = [q \in Ranks |-> IF q \in G
                                    THEN [sm[q] EXCEPT !.pc = "done",
                                                       !.ret = SumFn([o \in G |-> sm[o].local_sum], G)]
                                    ELSE sm[q]]
  /\ UNCHANGED <<nproc, vecVars, mqVars, yvec, net, faulty>>

\* The row arrays passed to sum(rows)
SumRowArgs == SeqsUpTo(0 .. (MaxSumN - 1), MaxSumN)

InitSum ==
  /\ vec \in {w \in Filled : w[0].N <= MaxSumN}
  /\ nproc = Cardinality(DOMAIN vec)
  /\ last = [op |-> "new", rank |-> -1, arg |-> <<>>, out |-> <<>>]
  /\ steps = 0
  /\ hung = FALSE
  /\ MqIdle
  /\ yvec = [p \in Ranks |-> NewVector("global")]
  /\ net = [p \in Ranks |-> [q \in Ranks |-> <<>>]]
  /\ faulty = FALSE
  /\ \/ sm = [p \in Ranks |-> [SmStart EXCEPT !.f = "sum"]]
     \/ \E rows \in [Ranks -> SumRowArgs] :
          sm = [p \in Ranks |-> [SmStart EXCEPT !.f = "sum_rows", !.rows = rows[p]]]

NextSum ==
  \/ \E p \in Ranks : sum(p)
  \/ \E p \in Ranks : sum_rows(p)
  \/ \E p \in Ranks : send_recv_size(p)
  \/ \E p \in Ranks : send_recv_rows(p)
  \/ SumAll

SpecSum == InitSum /\ [][NextSum]_vars

\* ---------------------------------------------------------------- ring exchange
\* The vectors of P processes after a collective resize(MaxSumN, n, {}) in
\* which every process took the same branch, and set_local of ones
RingLayouts(P) ==
  LET R == 0 .. (P - 1)
      N == MaxSumN
      one(v) == [v EXCEPT !.vals = [i \in DOMAIN v.vals |-> 1]]
  IN {[p \in R |-> one(ResizeResult(NewVector("global"), "dist", N, nv[p], <<>>, N,
                                     SumFn(nv, {q \in R : q < p})))] :
        nv \in {f \in [R -> 0 .. (N - 1)] : SumFn(f, R) = N}}
     \cup {[p \in R |-> one(ResizeResult(NewVector("local"), "serial", N, N, <<>>, N, 0))]}

\* Every process enters sum(rows) with its own rows
InitRing ==
  /\ nproc \in 1 .. MaxRing
  /\ vec \in RingLayouts(nproc)
  /\ last = [op |-> "new", rank |-> -1, arg |-> <<>>, out |-> <<>>]
  /\ steps = 0
  /\ hung = FALSE
  /\ MqIdle
  /\ yvec = [p \in Ranks |-> NewVector("global")]
  /\ net = [p \in Ranks |-> [q \in Ranks |-> <<>>]]
  /\ faulty = FALSE
  /\ \E rows \in [Ranks -> SumRowArgs] :
       sm = [p \in Ranks |-> [SmStart EXCEPT !.f = "sum_rows", !.rows = rows[p]]]

NextRing ==
  \/ \E p \in Ranks : sum_rows(p)
  \/ \E p \in Ranks : send_recv_size(p)
  \/ \E p \in Ranks : send_recv_rows(p)
  \/ SumAll

\* Every process runs: a call that can return does return
SpecRing == InitRing /\ [][NextRing]_vars /\ WF_vars(NextRing)

\* ---------------------------------------------------------------- arithmetic
\* Epetra_MultiVector::Dot, Update and Multiply return an error code when the
\* local lengths of the operands differ
LocalLengthError(v, y) == Len(v.vals) # Len(y.vals)

\* Epetra_DistObject::DistributedGlobal of x
DistributedGlobal(v) == ~v.serial /\ nproc > 1

\* The dot product of the owned entries
LocalDot(v, y) == SumSeq([i \in DOMAIN v.vals |-> v.vals[i] * y.vals[i]])

\* How far inner(y) gets on one process: an error, the return of the local
\* dot product, or the reduction over the processes
InnerBranch(v, y) ==
  IF ~y.x THEN "error"
  ELSE IF LocalLengthError(v, y) THEN "error"
       ELSE IF DistributedGlobal(v) THEN "sumall" ELSE "value"

\* All processes call inner(y).  The reduction inside Dot is collective: a
\* process that enters it while another process does not is blocked in it.
inner ==
  /\ ~hung /\ steps < MaxSteps
  /\ \A p \in Ranks : vec[p].x
  /\ LET b == [p \in Ranks |-> InnerBranch(vec[p], yvec[p])]
         allIn == \A p \in Ranks : b[p] = "sumall"
         dot == [p \in Ranks |-> IF b[p] = "error" THEN 0 ELSE LocalDot(vec[p], yvec[p])]
         out == [p \in Ranks |->
                   CASE b[p] = "error" -> <<"error", 0>>
                     [] b[p] = "value" -> <<"value", dot[p]>>
                     [] b[p] = "sumall" -> IF allIn THEN <<"value", SumFn(dot, Ranks)>>
                                                    ELSE <<"blocked", 0>>]
     IN /\ last' = [op |-> "inner", rank |-> -1, arg |-> <<>>, out |-> out]
        /\ hung' = (\E p \in Ranks : out[p][1] = "blocked")
  /\ steps' = MaxSteps
  /\ UNCHANGED <<nproc, vec, mqVars, arVars>>

\* The checks of axpy(a, y) and of operator*=(y), and the error code of the
\* Epetra call
ArithmeticError(v, y) ==
  \/ ~y.x
  \/ size(v) # size(y)
  \/ LocalLengthError(v, y)

\* axpy(a, y): x->Update(a, y, 1.0)
AxpyResult(v, a, y) ==
  IF ArithmeticError(v, y) THEN v
  ELSE [v EXCEPT !.vals = [i \in DOMAIN v.vals |-> a * y.vals[i] + v.vals[i]]]

\* operator*=(y): x->Multiply(1.0, *x, *v.x, 0.0)
MultiplyResult(v, y) ==
  IF ArithmeticError(v, y) THEN v
  ELSE [v EXCEPT !.vals = [i \in DOMAIN v.vals |-> v.vals[i] * y.vals[i]]]

\* The record of an operation of process p with operand y
Arithmetic(opname, p, a, result) ==
  /\ vec' = [vec EXCEPT ![p] = result]
  /\ last' = [op |-> opname, rank |-> p, arg |-> <<a>>,
              out |-> [q \in {p} |-> <<IF ArithmeticError(vec[p], yvec[p]) THEN "error" ELSE "done", 0>>]]
  /\ steps' = MaxSteps
  /\ UNCHANGED <<nproc, hung, mqVars, arVars>>

axpy(p) ==
  /\ ~hung /\ steps < MaxSteps
  /\ vec[p].x
  /\ \E a \in 2 .. MaxVal : Arithmetic("axpy", p, a, AxpyResult(vec[p], a, yvec[p]))

operator_plus_assign(p) ==
  /\ ~hung /\ steps < MaxSteps
  /\ vec[p].x
  /\ Arithmetic("+=", p, 1, AxpyResult(vec[p], 1, yvec[p]))

operator_minus_assign(p) ==
  /\ ~hung /\ steps < MaxSteps
  /\ vec[p].x
  /\ Arithmetic("-=", p, -1, AxpyResult(vec[p], -1, yvec[p]))

operator_times_assign(p) ==
  /\ ~hung /\ steps < MaxSteps
  /\ vec[p].x
  /\ Arithmetic("*=", p, 0, MultiplyResult(vec[p], yvec[p]))

\* v and y after construction, resize and set_local; y may be uninitialised
InitArith ==
  /\ vec \in Filled
  /\ nproc = Cardinality(DOMAIN vec)
  /\ yvec \in {y \in Filled : DOMAIN y = DOMAIN vec} \cup {[p \in DOMAIN vec |-> NewVector("global")]}
  /\ last = [op |-> "new", rank |-> -1, arg |-> <<>>, out |-> <<>>]
  /\ steps = 0
  /\ hung = FALSE
  /\ MqIdle
  /\ sm = [p \in Ranks |-> SmStart]
  /\ net = [p \in Ranks |-> [q \in Ranks |-> <<>>]]
  /\ faulty = FALSE

NextArith ==
  \/ inner
  \/ \E p \in Ranks : axpy(p)
  \/ \E p \in Ranks : operator_plus_assign(p)
  \/ \E p \in Ranks : operator_minus_assign(p)
  \/ \E p \in Ranks : operator_times_assign(p)

SpecArith == InitArith /\ [][NextArith]_vars

\* ---------------------------------------------------------------- norm
Abs(a) == IF a < 0 THEN -a ELSE a

\* The largest absolute value of a sequence, 0 for the empty sequence
RECURSIVE MaxAbs(_)
MaxAbs(s) == IF s = <<>> THEN 0 ELSE Max2(Abs(s[1]), MaxAbs(Tail(s)))

\* x->Norm1, x->Norm2 and x->NormInf over the processes of the vector's
\* communicator; the value of Norm2 is kept as its square, the sum of squares
Norm1(p) == LET G == CommOf(p) IN SumFn([q \in G |-> SumSeq([i \in DOMAIN vec[q].vals |-> Abs(vec[q].vals[i])])], G)

Norm2(p) == LET G == CommOf(p) IN SumFn([q \in G |-> SumSeq([i \in DOMAIN vec[q].vals |-> vec[q].vals[i] * vec[q].vals[i]])], G)

NormInf(p) == LET G == CommOf(p) IN MaxOver([q \in G |-> MaxAbs(vec[q].vals)], G)

\* norm(norm_type) on process p: the outcome and the value returned
NormResult(p, norm_type) ==
  IF norm_type = "l1" THEN <<"value", Norm1(p)>>
  ELSE IF norm_type = "l2" THEN <<"value", Norm2(p)>>
       ELSE <<"value", NormInf(p)>>

\* All processes call norm(norm_type)
norm ==
  /\ ~hung /\ steps < MaxSteps
  /\ \A p \in Ranks : vec[p].x
  /\ \E norm_type \in {"l1", "l2", "linf", "l3"} :
       last' = [op |-> "norm", rank |-> -1, arg |-> <<norm_type>>,
                out |-> [p \in Ranks |-> NormResult(p, norm_type)]]
  /\ steps' = MaxSteps
  /\ UNCHANGED <<nproc, vec, hung, mqVars, arVars>>

InitNorm ==
  /\ vec \in Filled
  /\ nproc = Cardinality(DOMAIN vec)
  /\ last = [op |-> "new", rank |-> -1, arg |-> <<>>, out |-> <<>>]
  /\ steps = 0
  /\ hung = FALSE
  /\ MqIdle
  /\ ArIdle

NextNorm == norm

SpecNorm == InitNorm /\ [][NextNorm]_vars

\* ---------------------------------------------------------------- ghost values
\* The status codes an Epetra call may return in this run
EpetraStatus == IF faulty THEN {0, -1} ELSE {0}

\* Epetra_Vector::PutScalar(a) returning err
PutScalar(v, a, err) ==
  IF err # 0 THEN v ELSE [v EXCEPT !.vals = [i \in DOMAIN v.vals |-> a]]

\* Epetra_Vector::Scale(a) returning err
Scale(v, a, err) ==
  IF err # 0 THEN v ELSE [v EXCEPT !.vals = [i \in DOMAIN v.vals |-> a * v.vals[i]]]

\* The processes of p's communicator whose map of x holds row g
OwnersOf(p, g) == {q \in CommOf(p) : vec[q].x /\ MyGID(vec[q], g)}

\* An Import that transfers nothing
ImportNoTransfer(p, err) == vec[p].xg

\* x_ghosted of process p after x_ghosted->Import(*x, importer, Insert)
\* returning err
Import(p, err) ==
  IF err # 0 THEN vec[p].xg
  ELSE [k \in DOMAIN vec[p].xg |->
          LET g == vec[p].xg_map[k]
          IN IF OwnersOf(p, g) = {} THEN vec[p].xg[k]
             ELSE LET o == CHOOSE q \in OwnersOf(p, g) : TRUE
                  IN vec[o].vals[g - vec[o].n0 + 1]]

zero(p) ==
  /\ ~hung /\ steps < MaxSteps
  /\ vec[p].x
  /\ \E err \in EpetraStatus :
       /\ vec' = [vec EXCEPT ![p] = PutScalar(vec[p], 0, err)]
       /\ last' = [op |-> "zero", rank |-> p, arg |-> <<0, err>>,
                   out |-> IF err # 0 THEN "error" ELSE "done"]
  /\ steps' = steps + 1
  /\ UNCHANGED <<nproc, hung, mqVars, arVars>>

\* operator=(double a): the status of PutScalar is not looked at
operator_assign_double(p) ==
  /\ ~hung /\ steps < MaxSteps
  /\ vec[p].x
  /\ \E a \in 1 .. MaxVal : \E err \in EpetraStatus :
       /\ vec' = [vec EXCEPT ![p] = PutScalar(vec[p], a, err)]
       /\ last' = [op |-> "assign_double", rank |-> p, arg |-> <<a, err>>, out |-> "done"]
  /\ steps' = steps + 1
  /\ UNCHANGED <<nproc, hung, mqVars, arVars>>

\* operator*=(double a)
operator_times_assign_double(p) ==
  /\ ~hung /\ steps < MaxSteps
  /\ vec[p].x
  /\ \E a \in 2 .. MaxVal : \E err \in EpetraStatus :
       /\ vec' = [vec EXCEPT ![p] = Scale(vec[p], a, err)]
       /\ last' = [op |-> "times_assign_double", rank |-> p, arg |-> <<a, err>>,
                   out |-> IF err # 0 THEN "error" ELSE "done"]
  /\ steps' = steps + 1
  /\ UNCHANGED <<nproc, hung, mqVars, arVars>>

\* All processes call update_ghost_values(); the status of Import is not
\* looked at
update_ghost_values ==
  /\ ~hung /\ steps < MaxSteps
  /\ \A p \in Ranks : vec[p].x /\ vec[p].xg_set /\ Len(vec[p].xg) = Cardinality(DOMAIN vec[p].g2l)
  /\ \E err \in [Ranks -> EpetraStatus] :
       /\ vec' = [p \in Ranks |-> [vec[p] EXCEPT !.xg = Import(p, err[p])]]
       /\ last' = [op |-> "update_ghost_values", rank |-> -1, arg |-> <<err>>, out |-> "done"]
  /\ steps' = steps + 1
  /\ UNCHANGED <<nproc, hung, mqVars, arVars>>

\* The second operand of axpy: a vector of the same layout holding ones
Ones(w) == [p \in DOMAIN w |-> [w[p] EXCEPT !.vals = [i \in DOMAIN w[p].vals |-> 1]]]

InitGhost ==
  /\ vec \in Constructed
  /\ nproc = Cardinality(DOMAIN vec)
  /\ last = [op |-> "new", rank |-> -1, arg |-> <<>>, out |-> <<>>]
  /\ steps = 0
  /\ hung = FALSE
  /\ MqIdle
  /\ yvec = Ones(vec)
  /\ sm = [p \in Ranks |-> SmStart]
  /\ net = [p \in Ranks |-> [q \in Ranks |-> <<>>]]
  /\ faulty = FALSE

\* The writes and the ghost update in any order, at most MaxGhostSteps calls
NextGhost ==
  \/ \E p \in Ranks : steps < MaxGhostSteps /\ zero(p)
  \/ \E p \in Ranks : steps < MaxGhostSteps /\ set(p)
  \/ \E p \in Ranks : steps < MaxGhostSteps /\ add(p)
  \/ steps < MaxGhostSteps /\ apply
  \/ \E p \in Ranks : steps < MaxGhostSteps /\ set_local(p)
  \/ \E p \in Ranks : steps < MaxGhostSteps /\ add_local(p)
  \/ \E p \in Ranks : steps < MaxGhostSteps /\ axpy(p)
  \/ \E p \in Ranks : steps < MaxGhostSteps /\ operator_assign_double(p)
  \/ \E p \in Ranks : steps < MaxGhostSteps /\ operator_times_assign_double(p)
  \/ steps < MaxGhostSteps /\ update_ghost_values

SpecGhost == InitGhost /\ [][NextGhost]_vars

\* The backend may fail: the calls that reach Epetra directly
InitBackend ==
  /\ vec \in Constructed
  /\ nproc = Cardinality(DOMAIN vec)
  /\ last = [op |-> "new", rank |-> -1, arg |-> <<>>, out |-> <<>>]
  /\ steps = 0
  /\ hung = FALSE
  /\ MqIdle
  /\ yvec = [p \in Ranks |-> NewVector("global")]
  /\ sm = [p \in Ranks |-> SmStart]
  /\ net = [p \in Ranks |-> [q \in Ranks |-> <<>>]]
  /\ faulty = TRUE

NextBackend ==
  \/ \E p \in Ranks : steps < MaxGhostSteps /\ zero(p)
  \/ \E p \in Ranks : steps < MaxGhostSteps /\ operator_assign_double(p)
  \/ \E p \in Ranks : steps < MaxGhostSteps /\ operator_times_assign_double(p)
  \/ steps < MaxGhostSteps /\ update_ghost_values

SpecBackend == InitBackend /\ [][NextBackend]_vars

\* ---------------------------------------------------------------- ghost lists
\* Ghost lists of up to MaxGhostList entries, which may name a row twice:
\* rows the caller does not own, or any rows with a local size of N
GhostListsRepeating(N, first, n) ==
  {s \in SeqsUpTo(0 .. (N - 1), MaxGhostList) :
     \A i \in DOMAIN s : s[i] < first \/ s[i] >= first + n \/ n = N}

\* All processes call resize(N, n, ghost_indices) with such lists
Resize3Ghosts ==
  /\ ~hung /\ steps < MaxGhostSteps
  /\ \E N \in 0 .. MaxN : \E nv \in LocalSizes(N) :
       \E gv \in [Ranks -> SeqsUpTo(0 .. (MaxN - 1), MaxGhostList)] :
         /\ \A p \in Ranks : gv[p] \in GhostListsRepeating(N, SumFn(nv, {q \in Ranks : q < p}), nv[p])
         /\ ResizeAll(N, nv, gv, "resize3")
  /\ steps' = steps + 1
  /\ UNCHANGED <<nproc, mqVars, arVars>>

NextGhostLists == Resize3Ghosts

SpecGhostLists == Init /\ [][NextGhostLists]_vars

\* ---------------------------------------------------------------- claims
\* A step of the vector operations (every operation advances steps)
Stepped == steps' # steps

\* C1 (as stated): every resize overload, for every requested size, on a
\* vector whose storage is shared reports an error and leaves the vector as
\* it was.
C1_ResizeSharedAlwaysFails ==
  [][(Stepped /\ last'.op \in {"resize", "resize3"})
       => \A p \in Ranks : Shared(vec[p]) => (last'.out[p] = "error" /\ vec'[p] = vec[p])]_vars

\* C1 (amended): on shared storage resize(N, n, ghost_indices) always reports
\* an error, resize(N) reports an error when N differs from the current size
\* and returns silently when N equals it; the vector is left as it was in
\* every case.
C1_ResizeSharedFailsUnlessSameSize ==
  [][(Stepped /\ last'.op \in {"resize", "resize3"})
       => \A p \in Ranks : Shared(vec[p])
            => /\ vec'[p] = vec[p]
               /\ last'.out[p] = (IF last'.op = "resize" /\ size(vec[p]) = last'.arg[1]
                                  THEN "noop" ELSE "error")]_vars

\* C1 witness: a resize to another size was refused on a shared vector
C1_Witness ==
  /\ last.op \in {"resize", "resize3"}
  /\ \E p \in Ranks : last.out[p] = "error" /\ Shared(vec[p]) /\ size(vec[p]) # last.arg[1]

\* C9: get_local, set_local and add_local with an array whose length differs
\* from local_size() report an error and change neither the vector nor the
\* array; with the right length get_local copies the owned entries,
\* set_local replaces them and add_local adds to them, and nothing else
\* changes.
C9_LocalAccessLength ==
  [][(Stepped /\ last'.op \in {"get_local", "set_local", "add_local"})
       => LET p == last'.rank
              values == last'.arg[1]
              n == local_size(vec[p])
          IN IF Len(values) # n
             THEN /\ last'.out[1] = TRUE
                  /\ vec' = vec
                  /\ last'.out[2] = values
             ELSE /\ last'.out[1] = FALSE
                  /\ last'.op = "get_local" => (vec' = vec /\ last'.out[2] = vec[p].vals)
                  /\ last'.op = "set_local" => vec' = [vec EXCEPT ![p].vals = values]
                  /\ last'.op = "add_local"
                       => vec' = [vec EXCEPT ![p].vals = [i \in 1 .. n |-> vec[p].vals[i] + values[i]]]]_vars

\* C9 witness: set_local with a wrong length was refused on a vector that
\* holds values
C9_Witness ==
  /\ last.op = "set_local" /\ last.out[1] = TRUE
  /\ \E i \in DOMAIN vec[last.rank].vals : vec[last.rank].vals[i] # 0

\* C2: after set(block, m, rows) by one process and then apply("insert"),
\* get_local on every process of the vector's communicator shows block[i] at
\* every written row rows[i] in its local range (rows in any order), when no
\* process had staged another value for that row in this flush cycle.
C2_SetApplyGetLocal ==
  (last.op = "apply" /\ last.arg[1] = "insert" /\ last.arg[2].op = "set")
    => LET r == last.arg[2].rank
           rows == last.arg[2].arg[1]
           block == last.arg[2].arg[2]
           staged == last.arg[3]
       IN \A q \in CommOf(r) : \A i \in DOMAIN rows :
            (/\ MyGID(vec[q], rows[i])
             /\ \A o \in Ranks : rows[i] \in DOMAIN staged[o] => staged[o][rows[i]] = block[i])
              => GetLocalArray(vec[q], Zeros(local_size(vec[q])))[rows[i] - vec[q].n0 + 1] = block[i]

\* C2 witness: two rows given in descending order by a process of a
\* two-process vector, one of them owned by the other process, which now
\* holds the written value
C2_Witness ==
  /\ last.op = "apply" /\ last.arg[1] = "insert" /\ last.arg[2].op = "set"
  /\ nproc = 2 /\ ~vec[0].serial
  /\ LET r == last.arg[2].rank
         rows == last.arg[2].arg[1]
         block == last.arg[2].arg[2]
     IN /\ Len(rows) = 2 /\ rows[1] > rows[2]
        /\ \E i \in DOMAIN rows : \E q \in Ranks \ {r} :
             MyGID(vec[q], rows[i]) /\ vec[q].vals[rows[i] - vec[q].n0 + 1] = block[i]

\* C8: get(block, m, rows) puts in block[i] the value that the owner of row
\* rows[i] holds, whether the row is owned by the caller or by another
\* process; on a one-process vector these are the local values.
C8_GetReadsOwner ==
  last.op = "get"
    => LET p == last.rank
           rows == last.arg[1]
       IN \A i \in DOMAIN rows :
            IF vec[p].serial \/ nproc = 1
            THEN last.out[i] = vec[p].vals[rows[i] + 1]
            ELSE \E q \in Ranks : /\ MyGID(vec[q], rows[i])
                                  /\ last.out[i] = vec[q].vals[rows[i] - vec[q].n0 + 1]

\* C8 witness: a process read a non-zero value of a row owned by another
\* process
C8_Witness ==
  /\ last.op = "get" /\ nproc = 2 /\ ~vec[last.rank].serial
  /\ \E i \in DOMAIN last.arg[1] : ~MyGID(vec[last.rank], last.arg[1][i]) /\ last.out[i] # 0

\* C4: the values returned by radius_ratio_histogram_data add up to the
\* number of cells of the whole mesh, there is one value per bin, and every
\* process returns the same values.
C4_HistogramCountsAllCells ==
  \A p \in Ranks :
    (call.f = "radius_ratio_histogram_data" /\ mq[p].pc = "done")
      => /\ Len(mq[p].ret[2]) = call.num_bins
         /\ SumSeq(mq[p].ret[2]) = Len(AllCells(nproc - 1))
         /\ \A q \in Ranks : mq[q].pc = "done" /\ mq[q].ret[2] = mq[p].ret[2]

\* C4 witness: a histogram with several bins of a mesh whose cells live on
\* two processes has been returned
C4_Witness ==
  /\ call.f = "radius_ratio_histogram_data" /\ call.num_bins > 1 /\ nproc = 2
  /\ \A p \in Ranks : mq[p].pc = "done" /\ Len(MeshRange(p)) > 0

\* C5: the slot of every cell is min(floor(ratio / interval), num_bins - 1):
\* it lies in 0 .. num_bins - 1, and a ratio of exactly 1.0 goes to the last
\* bin.
C5_SlotInRange ==
  \A p \in Ranks : \A k \in DOMAIN mq[p].slots :
    call.f = "radius_ratio_histogram_data"
      => LET c == radius_ratio(MeshRange(p)[k])
             slot == mq[p].slots[k]
         IN /\ slot \in 0 .. (call.num_bins - 1)
            /\ \E f \in 0 .. call.num_bins :
                 /\ f * ShapeDen <= c * call.num_bins
                 /\ c * call.num_bins < (f + 1) * ShapeDen
                 /\ slot = Min2(f, call.num_bins - 1)
            /\ c = ShapeDen => slot = call.num_bins - 1

\* C5 witness: a cell of ratio 1.0 was counted in the last of several bins
C5_Witness ==
  /\ call.f = "radius_ratio_histogram_data" /\ call.num_bins > 1
  /\ \E p \in Ranks : \E k \in DOMAIN mq[p].slots :
       radius_ratio(MeshRange(p)[k]) = ShapeDen /\ mq[p].slots[k] = call.num_bins - 1

\* C6: radius_ratio_min_max returns on every process the minimum and the
\* maximum of radius_ratio over the cells of the whole mesh, which is what it
\* returns on the unpartitioned mesh.
C6_MinMaxGlobal ==
  \A p \in Ranks :
    (call.f = "radius_ratio_min_max" /\ mq[p].pc = "done")
      => LET all == AllCells(nproc - 1)
             S == {radius_ratio(all[k]) : k \in DOMAIN all}
         IN /\ mq[p].ret = LocalMinMax(all, 1, DBL_MAX, 0)
            /\ S # {} => /\ mq[p].ret[1] \in S /\ \A x \in S : mq[p].ret[1] <= x
                         /\ mq[p].ret[2] \in S /\ \A x \in S : mq[p].ret[2] >= x

\* C6 witness: the minimum returned to process 0 is the ratio of a cell of
\* process 1 and smaller than every ratio of process 0
C6_Witness ==
  /\ call.f = "radius_ratio_min_max" /\ nproc = 2 /\ mq[0].pc = "done"
  /\ Len(MeshRange(0)) > 0 /\ Len(MeshRange(1)) > 0
  /\ \A k \in DOMAIN MeshRange(0) : mq[0].ret[1] < radius_ratio(MeshRange(0)[k])

\* C7: dihedral_angles on a cell that is not 3D reports an error and leaves
\* the output array as it was; on a 3D cell it leaves the array with exactly
\* 6 entries.
C7_DihedralAnglesDimension ==
  \A p \in Ranks :
    (call.f = "dihedral_angles" /\ mq[p].pc # "start")
      => IF mesh.dim # 3
         THEN mq[p].pc = "error" /\ mq[p].ret = mq[p].values
         ELSE mq[p].pc = "done" /\ Len(mq[p].ret) = 6

\* C7 witness: the call was refused on a 2D cell with a non-empty array
C7_Witness ==
  /\ call.f = "dihedral_angles" /\ mesh.dim = 2
  /\ \E p \in Ranks : mq[p].pc = "error" /\ Len(mq[p].values) > 0

\* C3: when the row arrays passed to sum(rows) by the processes of the
\* vector's communicator hold every global index exactly once between them,
\* sum(rows) returns on every process the sum of all entries of the vector,
\* which is what sum() returns.
C3_SumRowsWholeSpace ==
  \A p \in Ranks :
    LET G == CommOf(p)
        N == size(vec[p])
        total == SumFn([q \in G |-> SumSeq(vec[q].vals)], G)
        occurrences(g) == SumFn([q \in G |-> Cardinality({k \in DOMAIN sm[q].rows : sm[q].rows[k] = g})], G)
        once == /\ \A g \in 0 .. (N - 1) : occurrences(g) = 1
                /\ \A q \in G : \A k \in DOMAIN sm[q].rows : sm[q].rows[k] < N
    IN (sm[p].pc = "done" /\ (sm[p].f = "sum" \/ (sm[p].f = "sum_rows" /\ once)))
         => sm[p].ret = total

\* C3 witness: sum(rows) returned on two processes that own one entry each,
\* and the row of process 1 was passed by process 0
C3_Witness ==
  /\ nproc = 2 /\ ~vec[0].serial /\ sm[0].f = "sum_rows"
  /\ sm[0].pc = "done" /\ sm[1].pc = "done"
  /\ sm[0].rows = <<1, 0>> /\ sm[1].rows = <<>>
  /\ sm[1].ret = SumSeq(vec[0].vals) + SumSeq(vec[1].vals)

\* C10: every arithmetic operation between two initialised vectors whose
\* global sizes differ (inner, axpy, +=, -=, elementwise *=) reports an error
\* on the calling process and leaves both operands unchanged; none returns a
\* value.
C10_SizeMismatchReported ==
  [][(Stepped /\ last'.op \in {"inner", "axpy", "+=", "-=", "*="})
       => \A p \in DOMAIN last'.out :
            (yvec[p].x /\ size(vec[p]) # size(yvec[p]))
              => /\ last'.out[p][1] = "error"
                 /\ vec'[p] = vec[p] /\ yvec'[p] = yvec[p]]_vars

\* C11: a write of at least one row in one mode right after such a write of
\* the other mode by the same process, with no apply in between, reports an
\* error, and so does an apply whose mode differs from the mode of the write
\* just before it.
C11_MixedModesReported ==
  [][(Stepped /\ last.op \in {"set", "add"} /\ last.arg[1] # <<>>)
       => /\ (/\ last'.op \in {"set", "add"} /\ last'.op # last.op
              /\ last'.rank = last.rank /\ last'.arg[1] # <<>>)
               => last'.out = "error"
          /\ (last'.op = "apply" /\ last'.arg[1] # (IF last.op = "set" THEN "insert" ELSE "add"))
               => last'.out = "error"]_vars

\* C12: apply(mode) with a mode other than "add" and "insert" reports an
\* error, flushes nothing and leaves the vector of every process, staged
\* values included, as it was.
C12_ApplyUnknownMode ==
  [][(Stepped /\ last'.op = "apply" /\ last'.arg[1] \notin {"add", "insert"})
       => (last'.out = "error" /\ vec' = vec)]_vars

\* C12 witness: apply with an unknown mode was refused while a process
\* still holds a staged value for a row of another process
C12_Witness ==
  /\ last.op = "apply" /\ last.arg[1] = "flush" /\ last.out = "error"
  /\ nproc = 2 /\ ~vec[0].serial
  /\ \E p \in Ranks : DOMAIN vec[p].nl # {}

\* C13: norm(kind) with a kind other than l1, l2 and linf reports an error
\* on every process and returns no value.
C13_NormUnknownKindReported ==
  (last.op = "norm" /\ last.arg[1] \notin {"l1", "l2", "linf"})
    => \A p \in Ranks : last.out[p][1] = "error"

\* C14 (as stated): after a resize that succeeded on every process, size()
\* equals the sum of local_size() over all processes.
C14_SizeIsSumOverAllProcesses ==
  (last.op \in {"resize", "resize3"} /\ \A p \in Ranks : last.out[p] \in {"serial", "dist"})
    => \A p \in Ranks : size(vec[p]) = SumFn([q \in Ranks |-> local_size(vec[q])], Ranks)

\* C14 (amended): after a resize that succeeded on a process, size() equals
\* the sum of local_size() over the processes of the communicator of its
\* map: all processes for a distributed map, the process alone for the
\* serial map of a "local" vector or of a resize with N = n.
C14_SizeIsSumOverCommunicator ==
  \A p \in Ranks :
    (last.op \in {"resize", "resize3"} /\ last.out[p] \in {"serial", "dist"})
      => size(vec[p]) = SumFn([q \in CommOf(p) |-> local_size(vec[q])], CommOf(p))

\* C14 witness: a resize built a distributed map over two processes that own
\* entries both
C14_Witness ==
  /\ last.op = "resize3" /\ nproc = 2
  /\ \A p \in Ranks : last.out[p] = "dist" /\ local_size(vec[p]) > 0

\* C15: resize(N, n, ghost_indices) with a non-empty ghost list on a vector
\* of type "local" or with N = n reports an error and leaves the vector as
\* it was: values, map, ghost global-to-local map and ghost cache.
C15_SerialGhostsNoMutation ==
  [][(Stepped /\ last'.op = "resize3")
       => \A p \in Ranks :
            (/\ Len(last'.arg[3][p]) # 0
             /\ (vec[p].type = "local" \/ last'.arg[1] = last'.arg[2][p]))
              => (last'.out[p] \in {"error", "error_ghosts"} /\ vec'[p] = vec[p])]_vars

\* C16: zero, set, add, apply, set_local, add_local, axpy and scaling leave
\* every ghost entry of every process as it was, and right after
\* update_ghost_values every ghost slot holds the value its owner holds.
C16_GhostCacheFrame ==
  [][Stepped =>
       /\ last'.op \in {"zero", "set", "add", "apply", "set_local", "add_local", "axpy",
                        "times_assign_double"}
            => \A p \in Ranks : vec'[p].xg = vec[p].xg /\ vec'[p].xg_map = vec[p].xg_map
       /\ last'.op = "update_ghost_values"
            => \A p \in Ranks : \A k \in DOMAIN vec'[p].xg :
                 \A o \in Ranks :
                   (~vec'[p].serial /\ MyGID(vec'[o], vec'[p].xg_map[k]))
                     => vec'[p].xg[k] = vec'[o].vals[vec'[p].xg_map[k] - vec'[o].n0 + 1]]_vars

\* A process wrote a row, and the ghost update then brought the new value
\* into another process's ghost slot
C16_Witness ==
  /\ last.op = "update_ghost_values"
  /\ \E p \in Ranks : \E k \in DOMAIN vec[p].xg : vec[p].xg[k] > 0

\* C17: every operation in which an Epetra call returns a nonzero status
\* ends with a reported error; none completes normally (zero, scalar
\* assignment, scaling, update_ghost_values).
C17_BackendFailureReported ==
  /\ (last.op \in {"zero", "assign_double", "times_assign_double"} /\ last.arg[2] # 0)
       => last.out = "error"
  /\ (last.op = "update_ghost_values" /\ \E p \in Ranks : last.arg[1][p] # 0)
       => last.out = "error"

\* C19: in a collective resize on more than one process, on a vector whose
\* type is not "local", no process takes the serial-map branch while
\* another takes the distributed-map branch.
C19_SameResizeBranch ==
  (/\ last.op \in {"resize", "resize3"}
   /\ nproc > 1
   /\ \A p \in Ranks : vec[p].type # "local")
    => ~ \E p, q \in Ranks : last.out[p] = "serial" /\ last.out[q] \in {"dist", "blocked"}

\* C20: in the four mesh quality queries all processes issue the same
\* collective reductions in the same order, whatever cells each of them owns,
\* and every call ends: the reductions issued by any two processes agree as
\* far as both have got, and no process issues a reduction that a process
\* whose call has ended did not issue.
C20_SameCollectives ==
  call.f \in {"radius_ratio_min_max", "radius_ratio_histogram_data",
              "dihedral_angles_min_max", "dihedral_angles_histogram_data"}
    => \A p, q \in Ranks :
         /\ \A k \in DOMAIN mq[p].coll \cap DOMAIN mq[q].coll : mq[p].coll[k] = mq[q].coll[k]
         /\ mq[p].pc \in {"done", "error", "aborted"} => Len(mq[q].coll) <= Len(mq[p].coll)

\* C18: in sum(rows) on P processes, round i of process p sends to
\* (p + i) mod P and receives from (p - i) mod P, the process p sends to in a
\* round receives from p in that round, a process that has left the loop has
\* run P - 1 rounds and received from every other process exactly once with
\* no message to it left over, and every process eventually reaches the
\* final sum-reduce.
C18_RingExchange ==
  /\ [](\A p \in Ranks :
          /\ \A k \in DOMAIN sm[p].sent : sm[p].sent[k] = (p + k) % nproc
          /\ \A k \in DOMAIN sm[p].recvd : sm[p].recvd[k] = (p - k + nproc) % nproc
          /\ \A k \in DOMAIN sm[p].sent :
               k \in DOMAIN sm[sm[p].sent[k]].recvd => sm[sm[p].sent[k]].recvd[k] = p
          /\ sm[p].pc \in {"sumall", "done"}
               => /\ Len(sm[p].recvd) = nproc - 1
                  /\ Len(sm[p].sent) = nproc - 1
                  /\ Distinct(sm[p].recvd)
                  /\ Range(sm[p].recvd) = Ranks \ {p}
                  /\ \A q \in Ranks : net[q][p] = <<>>)
  /\ <>(\A p \in Ranks : sm[p].pc \in {"sumall", "done"})

\* Three processes have returned from sum(rows), and one of them sent rows
\* it does not own around the ring
C18_Witness ==
  /\ nproc = 3
  /\ \A p \in Ranks : sm[p].pc = "done" /\ Len(sm[p].recvd) = 2
  /\ \E p \in Ranks : sm[p].nonlocal_rows # <<>>

\* C21: after every successful resize(N, n, ghost_indices) the ghost
\* global-to-local map has exactly the supplied ghost indices as keys, maps
\* ghost_indices[i] to slot i, is a bijection onto the slots of the ghost
\* vector, and has as many entries as x_ghosted is long.
C21_GhostMapBijection ==
  last.op = "resize3"
    => \A p \in Ranks :
         last.out[p] \in {"serial", "dist"}
           => LET ghosts == last.arg[3][p]
                  g2l == vec[p].g2l
              IN /\ DOMAIN g2l = Range(ghosts)
                 /\ \A i \in DOMAIN ghosts : g2l[ghosts[i]] = i - 1
                 /\ {g2l[g] : g \in DOMAIN g2l} = 0 .. (Len(ghosts) - 1)
                 /\ Cardinality(DOMAIN g2l) = Len(vec[p].xg)

\* C22 (as stated): sum(rows) returns on every process the sum of the
\* entries at the union of the row arrays of all processes, each distinct
\* row counted once.
C22_SumRowsUnionOfAll ==
  \A p \in Ranks :
    LET G == CommOf(p)
        N == size(vec[p])
        union == {g \in 0 .. (N - 1) : \E q \in Ranks : g \in Range(sm[q].rows)}
        entry == [g \in union |->
                    LET o == CHOOSE q \in G : g >= local_range(vec[q])[1] /\ g < local_range(vec[q])[2]
                    IN vec[o].vals[g - local_range(vec[o])[1] + 1]]
    IN (sm[p].pc = "done" /\ sm[p].f = "sum_rows") => sm[p].ret = SumFn(entry, union)

\* C22 (amended): sum(rows) returns on every process the sum of the entries
\* at the union of the row arrays of the processes of the communicator of
\* the vector's map, each distinct row counted once, also when a row occurs
\* several times in one array or in the arrays of several processes.
C22_SumRowsUnionOfCommunicator ==
  \A p \in Ranks :
    LET G == CommOf(p)
        N == size(vec[p])
        union == {g \in 0 .. (N - 1) : \E q \in G : g \in Range(sm[q].rows)}
        entry == [g \in union |->
                    LET o == CHOOSE q \in G : g >= local_range(vec[q])[1] /\ g < local_range(vec[q])[2]
                    IN vec[o].vals[g - local_range(vec[o])[1] + 1]]
    IN (sm[p].pc = "done" /\ sm[p].f = "sum_rows") => sm[p].ret = SumFn(entry, union)

\* Row 1, owned by process 1, is passed twice by process 0 and once by its
\* owner, and is counted once
C22_Witness ==
  /\ nproc = 2 /\ ~vec[0].serial /\ local_size(vec[0]) = 1 /\ local_size(vec[1]) = 1
  /\ sm[0].pc = "done" /\ sm[1].pc = "done"
  /\ sm[0].rows = <<1, 1>> /\ sm[1].rows = <<1>>
  /\ sm[0].ret = vec[1].vals[1]

\* C23: on a 3D mesh the values returned by dihedral_angles_histogram_data
\* add up to 6 times the number of cells of the whole mesh, one value per
\* bin; the slot of every angle is min(floor(angle / interval), num_bins - 1)
\* with interval = pi / num_bins: it lies in 0 .. num_bins - 1, and an angle of
\* exactly pi goes to the last bin.
C23_DihedralHistogram ==
  (call.f = "dihedral_angles_histogram_data" /\ mesh.dim = 3)
    => \A p \in Ranks :
         /\ mq[p].pc = "done"
              => /\ Len(mq[p].ret[2]) = call.num_bins
                 /\ SumSeq(mq[p].ret[2]) = 6 * Len(AllCells(nproc - 1))
         /\ mq[p].pc \in {"sum", "done"} => Len(mq[p].slots) = 6 * Len(MeshRange(p))
         /\ \A k \in DOMAIN mq[p].slots :
              LET a == Angle(MeshRange(p)[((k - 1) \div 6) + 1], (k - 1) % 6)
                  slot == mq[p].slots[k]
              IN /\ slot \in 0 .. (call.num_bins - 1)
                 /\ \E f \in 0 .. call.num_bins :
                      /\ f * ShapeDen <= a * call.num_bins
                      /\ a * call.num_bins < (f + 1) * ShapeDen
                      /\ slot = Min2(f, call.num_bins - 1)
                 /\ a = ShapeDen => slot = call.num_bins - 1

\* A histogram with several bins of a 3D mesh whose cells live on two
\* processes has been returned, and an angle of pi was counted in the last bin
C23_Witness ==
  /\ call.f = "dihedral_angles_histogram_data" /\ mesh.dim = 3
  /\ call.num_bins > 1 /\ nproc = 2
  /\ \A p \in Ranks : mq[p].pc = "done" /\ Len(MeshRange(p)) > 0
  /\ \E p \in Ranks : \E k \in DOMAIN mq[p].slots :
       /\ Angle(MeshRange(p)[((k - 1) \div 6) + 1], (k - 1) % 6) = ShapeDen
       /\ mq[p].slots[k] = call.num_bins - 1

\* C24: resize(N) on an initialised vector whose size() is already N returns
\* with the vector as it was and without an error, shared storage or not;
\* a resize(N) that builds a new vector is one to another size (or of a
\* vector never initialised), and the new vector holds zeros.
C24_ResizeSameSizeNoop ==
  [][(Stepped /\ last'.op = "resize")
       => \A p \in Ranks :
            LET same == vec[p].x /\ size(vec[p]) = last'.arg[1]
            IN /\ same => (vec'[p] = vec[p] /\ last'.out[p] = "noop")
               /\ last'.out[p] \in {"serial", "dist"}
                    => (~same /\ vec'[p].vals = Zeros(Len(vec'[p].vals)) /\ vec'[p].use = 1)]_vars

\* resize(N) returned silently on a shared, non-empty vector of size N
C24_Witness ==
  /\ last.op = "resize"
  /\ \E p \in Ranks :
       /\ last.out[p] = "noop" /\ Shared(vec[p])
       /\ size(vec[p]) = last.arg[1] /\ Len(vec[p].vals) > 0

====
